---- MODULE Spec2Model ----
(***************************************************************************)
(* Delhi Metro route finder (src/delhi_metro_project.py).                  *)
(*                                                                         *)
(* The script loads a station table and an edge table, builds an           *)
(* undirected nx.Graph from them, and on "Get Route" runs a weighted       *)
(* shortest-path search and walks the path to accumulate the travel time   *)
(* and the line changes.                                                   *)
(*                                                                         *)
(* Times are fixed-point numbers in tenths of a minute (0.2 min = 2), so   *)
(* that DWELL_TIME is an integer.  A float is a record: a number           *)
(* [k |-> "num", v |-> n] or the IEEE not-a-number [k |-> "nan"], which    *)
(* pandas yields for an empty CSV cell and which float() accepts.          *)
(***************************************************************************)
EXTENDS Integers, Sequences, FiniteSets, TLC

VARIABLES
    stations,     \* station table returned by load_data
    edges,        \* edge table returned by load_data
    pc,           \* position of the script
    warned,       \* stations named by the st.warning of line 176
    G,            \* the nx.Graph: nodes, node attribute 'line', edge attributes
    idx,          \* number of edge rows the build loop has processed
    source,       \* selected source station
    target,       \* selected destination station
    path,         \* result of nx.shortest_path
    route_steps,  \* steps appended by the handler
    total_time,   \* accumulated float
    display       \* what the handler wrote to the page

vars == <<stations, edges, pc, warned, G, idx, source, target, path,
          route_steps, total_time, display>>

-----------------------------------------------------------------------------
(* Bounds of the checked inputs *)

MaxRows == 3

StationNames == {"A", "B", "C", "D"}

\* Coordinates of the station master, as kilometres along one meridian
Pos == [s \in StationNames |->
          CASE s = "A" -> 0 [] s = "B" -> 4 [] s = "C" -> 8 [] OTHER -> 16]

\* line_name of the (first) station_line_mapping row of a station
StationLine == [s \in StationNames |->
          CASE s = "A" -> "Red" [] s = "B" -> "Blue" [] s = "C" -> "Blue" [] OTHER -> "Red"]

-----------------------------------------------------------------------------
(* Floats *)

Num(n) == [k |-> "num", v |-> n]
NaN == [k |-> "nan", v |-> 0]
\* a cell holding text that float() rejects
BadCell == [k |-> "bad", v |-> 0]
\* Python None (no value)
NoneT == [k |-> "none", v |-> 0]

IsNum(x) == x.k = "num"

\* x + y on floats: not-a-number is absorbing
FAdd(x, y) == IF IsNum(x) /\ IsNum(y) THEN Num(x.v + y.v) ELSE NaN

\* x < y on floats: every comparison with not-a-number is false
FLess(x, y) == IsNum(x) /\ IsNum(y) /\ x.v < y.v

\* x <= y on floats
FLeq(x, y) == IsNum(x) /\ IsNum(y) /\ x.v <= y.v

\* Python truthiness of a float: 0.0 is falsy, not-a-number is truthy
Truthy(x) == ~(IsNum(x) /\ x.v = 0)

-----------------------------------------------------------------------------
(* Parameters, lines 128-131 (minutes in tenths) *)

INTERCHANGE_TIME == 10
DWELL_TIME == 2
AVG_SPEED_KMH == 80
DEFAULT_EDGE_TIME == 20

-----------------------------------------------------------------------------
(* Lines *)

\* Python None as a line value
NoLine == "<None>"

\* line_name cells of the tables whose lines vary
RawLines == {"Red", "Blue"}

\* str(raw_line).strip().lower(), line 233
NormLine(raw) ==
    CASE raw = "Red"  -> "red"
      [] raw = "red " -> "red"
      [] raw = "Blue" -> "blue"
      [] OTHER        -> ""

\* raw_line.title(), line 241
TitleLine(raw) ==
    CASE raw = "Red"  -> "Red"
      [] raw = "red " -> "Red "
      [] raw = "Blue" -> "Blue"
      [] raw = "red"  -> "Red"
      [] raw = "blue" -> "Blue"
      [] OTHER        -> ""

-----------------------------------------------------------------------------
(* Input tables *)

\* The station pairs an edge row may name.  Rows of one unordered pair may
\* come in either orientation.
RowPairs == {<<"A", "B">>, <<"B", "A">>, <<"B", "C">>, <<"C", "D">>, <<"A", "C">>}

PairIdx(p) ==
    CASE p = <<"A", "B">> -> 1 [] p = <<"B", "A">> -> 1
      [] p = <<"B", "C">> -> 2 [] p = <<"C", "D">> -> 3 [] OTHER -> 4

\* Rows of different station pairs are independent of their order (only the
\* first matching row and the last added row of a pair are read), so tables
\* are enumerated with the pairs in non-decreasing order.
SortedPairs(q) ==
    \A i \in DOMAIN q : \A j \in DOMAIN q : i < j => PairIdx(q[i]) <= PairIdx(q[j])

TimeCells == {Num(0), Num(50), NaN, BadCell}

\* line_name of the rows of a pair in the tables whose times vary
PairLine(p) ==
    CASE p = <<"A", "B">> -> "Red" [] p = <<"B", "A">> -> "Blue"
      [] p = <<"B", "C">> -> "Blue" [] p = <<"C", "D">> -> "Red" [] OTHER -> "red "

\* travel_time_min of the rows of a pair in the tables whose lines vary
PairTime(p) ==
    CASE p = <<"A", "B">> -> Num(50) [] p = <<"B", "A">> -> Num(30)
      [] p = <<"B", "C">> -> Num(30) [] p = <<"C", "D">> -> Num(30) [] OTHER -> Num(50)

MkRow(p, l, t) == [from |-> p[1], to |-> p[2], line |-> l, time |-> t]

\* Edge table whose travel_time_min cells are c (line_name fixed per pair)
WeightTable(q, c) ==
    [timeCol |-> TRUE, lineCol |-> TRUE,
     rows |-> [i \in DOMAIN q |-> MkRow(q[i], PairLine(q[i]), c[i])]]

\* Edge table without a travel_time_min column
NoTimeTable(q) ==
    [timeCol |-> FALSE, lineCol |-> TRUE,
     rows |-> [i \in DOMAIN q |-> MkRow(q[i], PairLine(q[i]), NoneT)]]

\* Edge table whose line_name cells are l (travel_time_min fixed per pair)
LineTable(q, l) ==
    [timeCol |-> TRUE, lineCol |-> TRUE,
     rows |-> [i \in DOMAIN q |-> MkRow(q[i], l[i], PairTime(q[i]))]]

\* Edge table without a line_name column
NoLineTable(q) ==
    [timeCol |-> TRUE, lineCol |-> FALSE,
     rows |-> [i \in DOMAIN q |-> MkRow(q[i], NoLine, PairTime(q[i]))]]

\* Station tables: the stations that have a row, whether the table has a
\* line_name column, and whether the merge of lines 86-91 gave it
\* latitude/longitude columns
FullStations == [present |-> StationNames, lineCol |-> TRUE, coords |-> TRUE]

StationTables ==
    {[present |-> {}, lineCol |-> TRUE, coords |-> FALSE],
     [present |-> StationNames, lineCol |-> FALSE, coords |-> FALSE],
     [present |-> StationNames \ {"C"}, lineCol |-> TRUE, coords |-> TRUE]}

-----------------------------------------------------------------------------
(* Weight resolution, lines 133-171 *)

\* float(val) on a travel_time_min cell, lines 142-145: text raises
FloatOf(cell) == IF cell.k = "bad" THEN NoneT ELSE cell

\* distance_km / AVG_SPEED_KMH * 60, lines 165-166 (in tenths of a minute)
GeoTime(a, b) ==
    LET d == IF Pos[a] < Pos[b] THEN Pos[b] - Pos[a] ELSE Pos[a] - Pos[b]
    IN  (d * 60 * 10) \div AVG_SPEED_KMH

\* rows of the edge table naming the pair a, b in either direction, line 136
MatchingRows(tbl, a, b) ==
    {i \in 1..Len(tbl.rows) :
        \/ (tbl.rows[i].from = a /\ tbl.rows[i].to = b)
        \/ (tbl.rows[i].from = b /\ tbl.rows[i].to = a)}

Min(S) == CHOOSE x \in S : \A y \in S : x <= y

get_edge_travel_time(tbl, a, b) ==
    LET rows == MatchingRows(tbl, a, b)
    IN  IF rows # {}
        THEN IF tbl.timeCol
             THEN LET val == FloatOf(tbl.rows[Min(rows)].time)
                  IN  IF val = NoneT THEN Num(DEFAULT_EDGE_TIME) ELSE val
             ELSE Num(DEFAULT_EDGE_TIME)
        ELSE NoneT

calculate_travel_time(st, tbl, from_station, to_station) ==
    LET t == get_edge_travel_time(tbl, from_station, to_station)
    IN  IF t # NoneT THEN t
        ELSE IF st.coords /\ from_station \in st.present /\ to_station \in st.present
             THEN Num(GeoTime(from_station, to_station))
             ELSE Num(DEFAULT_EDGE_TIME)

\* RowEdgeTime with the tiers in the wrong order: the great-circle time wins
\* over the explicit travel_time_min
RowEdgeTimeGeoFirst(st, tbl, row) ==
    IF st.coords /\ row.from \in st.present /\ row.to \in st.present
    THEN Num(GeoTime(row.from, row.to))
    ELSE LET explicit == IF tbl.timeCol THEN FloatOf(row.time) ELSE NoneT
         IN  IF explicit = NoneT
             THEN calculate_travel_time(st, tbl, row.from, row.to)
             ELSE explicit

\* edge_time of a row of the build loop, lines 193-201
RowEdgeTime(st, tbl, row) ==
    LET explicit == IF tbl.timeCol THEN FloatOf(row.time) ELSE NoneT
    IN  IF explicit = NoneT
        THEN calculate_travel_time(st, tbl, row.from, row.to)
        ELSE explicit

\* line_value of a row of the build loop, lines 191 and 204
RowLineValue(st, tbl, row) ==
    LET edge_line == IF tbl.lineCol THEN row.line ELSE NoLine
    IN  IF edge_line # NoLine THEN edge_line
        ELSE IF st.lineCol /\ row.from \in st.present
             THEN StationLine[row.from]
             ELSE NoLine

-----------------------------------------------------------------------------
(* Graph: nx.Graph keeps one attribute dictionary per unordered node pair *)

EmptyGraph == [nodes |-> {}, nline |-> <<>>, adj |-> <<>>]

\* G.add_node(node_name, line=...), lines 180-186, for every station row
add_nodes(g, st) ==
    [g EXCEPT !.nodes = st.present,
              !.nline = [s \in st.present |->
                            IF st.lineCol THEN StationLine[s] ELSE NoLine]]

\* G.add_edge(a, b, weight=w, line=l), line 206
add_edge(g, a, b, w, l) ==
    LET e == {a, b}
        ns == g.nodes \cup e
    IN  [nodes |-> ns,
         nline |-> [s \in ns |-> IF s \in g.nodes THEN g.nline[s] ELSE NoLine],
         adj   |-> [x \in (DOMAIN g.adj) \cup {e} |->
                        IF x = e THEN [weight |-> w, line |-> l] ELSE g.adj[x]]]

HasEdge(g, a, b) == {a, b} \in DOMAIN g.adj

Neighbors(g, u) == {w \in g.nodes \ {u} : HasEdge(g, u, w)}

-----------------------------------------------------------------------------
(* nx.shortest_path(G, source, target, weight="weight"), line 221:          *)
(* Dijkstra's algorithm on the float weights.  Which of several fringe      *)
(* nodes of equal (or incomparable) distance is taken first depends on the  *)
(* heap order, so the search is a set of runs.                              *)

\* take u off the fringe and relax its edges
Settle(g, st, u) ==
    LET done == st.done \cup {u}
        better == {w \in Neighbors(g, u) \ done :
                      LET nd == FAdd(st.dist[u], g.adj[{u, w}].weight)
                      IN  w \notin st.seen \/ FLess(nd, st.dist[w])}
    IN  [done |-> done,
         seen |-> st.seen \cup better,
         dist |-> [w \in g.nodes |->
                      IF w \in better
                      THEN FAdd(st.dist[u], g.adj[{u, w}].weight)
                      ELSE st.dist[w]],
         pred |-> [w \in g.nodes |-> IF w \in better THEN u ELSE st.pred[w]]]

RECURSIVE DijkstraRuns(_, _)
DijkstraRuns(g, st) ==
    LET fringe == st.seen \ st.done
        first == {u \in fringe : \A v \in fringe : ~FLess(st.dist[v], st.dist[u])}
    IN  IF fringe = {} THEN {st}
        ELSE UNION {DijkstraRuns(g, Settle(g, st, u)) : u \in first}

RECURSIVE PathBack(_, _, _)
\* the path source..t read from the predecessors
PathBack(pred, s, t) ==
    IF t = s THEN <<s>> ELSE Append(PathBack(pred, s, pred[t]), t)

\* the paths the search may return; empty when it raises NetworkXNoPath
shortest_path(g, s, t) ==
    IF s = t THEN {<<s>>}
    ELSE LET st0 == [done |-> {}, seen |-> {s},
                     dist |-> [w \in g.nodes |-> Num(0)],
                     pred |-> [w \in g.nodes |-> w]]
         IN  {PathBack(st.pred, s, t) : st \in {r \in DijkstraRuns(g, st0) : t \in r.seen}}

-----------------------------------------------------------------------------
(* The "Get Route" handler, lines 219-264 *)

\* edge_data.get("weight", DEFAULT_EDGE_TIME) or DEFAULT_EDGE_TIME, line 234
ReadEdgeTime(w) == IF Truthy(w) THEN w ELSE Num(DEFAULT_EDGE_TIME)

\* edge_data.get("line") or "", line 232
RawLineOf(l) == IF l = NoLine THEN "" ELSE l

\* Python truthiness of prev_line (None and "" are falsy)
LineTruthy(l) == l # NoLine /\ l # ""

\* HopTime without the dwell time
HopTimeNoDwell(w) == ReadEdgeTime(w)

\* the time one hop adds to total_time, line 236
HopTime(w) == FAdd(ReadEdgeTime(w), Num(DWELL_TIME))

\* the condition of line 239
IsChange(prev_line, edge_line, last_change_station, current) ==
    LineTruthy(prev_line) /\ prev_line # edge_line /\ last_change_station # current

ChangeStep(prev_line, raw_line, current) ==
    [kind |-> "change", at |-> current, from |-> TitleLine(prev_line),
     to |-> TitleLine(raw_line)]

GoStep(nxt, raw_line) ==
    [kind |-> "go", at |-> nxt, from |-> "",
     to |-> IF raw_line # "" THEN raw_line ELSE "Unknown"]

\* one iteration of the loop of lines 227-248
WalkHop(g, p, i, acc) ==
    LET current == p[i]
        nxt == p[i + 1]
        edge_data == g.adj[{current, nxt}]
        raw_line == RawLineOf(edge_data.line)
        edge_line == NormLine(raw_line)
        t1 == FAdd(acc.total_time, HopTime(edge_data.weight))
        chg == IsChange(acc.prev_line, edge_line, acc.last_change_station, current)
    IN  [route_steps |->
             IF chg
             THEN acc.route_steps \o <<ChangeStep(acc.prev_line, raw_line, current),
                                       GoStep(nxt, raw_line)>>
             ELSE Append(acc.route_steps, GoStep(nxt, raw_line)),
         total_time |-> IF chg THEN FAdd(t1, Num(INTERCHANGE_TIME)) ELSE t1,
         prev_line |-> edge_line,
         last_change_station |-> IF chg THEN current ELSE acc.last_change_station]

RECURSIVE WalkFrom(_, _, _, _)
WalkFrom(g, p, i, acc) ==
    IF i > Len(p) - 1 THEN acc ELSE WalkFrom(g, p, i + 1, WalkHop(g, p, i, acc))

\* Walk that charges the dwell time of the source station before the loop
WalkDwellAtSource(g, p) ==
    WalkFrom(g, p, 1, [route_steps |-> <<>>, total_time |-> Num(DWELL_TIME),
                       prev_line |-> NoLine, last_change_station |-> ""])

\* the whole loop, lines 222-248
Walk(g, p) ==
    WalkFrom(g, p, 1, [route_steps |-> <<>>, total_time |-> Num(0),
                       prev_line |-> NoLine, last_change_station |-> ""])

NoDisplay == [info |-> 0, steps |-> <<>>, metric |-> NoneT, error |-> FALSE]

-----------------------------------------------------------------------------
(* The script *)

\* The state after load_data: every edge table of at most MaxRows rows
\* whose travel_time_min cells vary (with the full station table), and every
\* edge table whose line_name cells vary or that lacks a column (with each
\* of the incomplete station tables).
Init ==
    /\ \E n \in 0..MaxRows : \E q \in [1..n -> RowPairs] :
          /\ SortedPairs(q)
          /\ \/ /\ stations = FullStations
                /\ \E c \in [1..n -> TimeCells] : edges = WeightTable(q, c)
             \/ /\ stations \in StationTables
                /\ \/ edges = NoTimeTable(q)
                   \/ edges = NoLineTable(q)
                   \/ \E l \in [1..n -> RawLines] : edges = LineTable(q, l)
    /\ pc = "check"
    /\ warned = {}
    /\ G = EmptyGraph
    /\ idx = 0
    /\ source = ""
    /\ target = ""
    /\ path = <<>>
    /\ route_steps = <<>>
    /\ total_time = NoneT
    /\ display = NoDisplay

query == <<source, target, path, route_steps, total_time, display>>

\* lines 173-176: warn about stations the edges name and the mapping lacks
CheckMissing ==
    /\ pc = "check"
    /\ warned' = ({edges.rows[i].from : i \in 1..Len(edges.rows)}
                   \cup {edges.rows[i].to : i \in 1..Len(edges.rows)})
                  \ stations.present
    /\ pc' = "nodes"
    /\ UNCHANGED <<stations, edges, G, idx, query>>

\* lines 179-186
AddNodes ==
    /\ pc = "nodes"
    /\ G' = add_nodes(EmptyGraph, stations)
    /\ pc' = "edges"
    /\ UNCHANGED <<stations, edges, warned, idx, query>>

\* AddEdge that rejects a row naming a station the station table lacks
AddEdgeReject ==
    /\ pc = "edges"
    /\ idx < Len(edges.rows)
    /\ LET row == edges.rows[idx + 1]
       IN  G' = IF {row.from, row.to} \subseteq stations.present
                THEN add_edge(G, row.from, row.to,
                              RowEdgeTime(stations, edges, row),
                              RowLineValue(stations, edges, row))
                ELSE G
    /\ idx' = idx + 1
    /\ UNCHANGED <<stations, edges, pc, warned, query>>

\* one iteration of the loop of lines 188-206
AddEdge ==
    /\ pc = "edges"
    /\ idx < Len(edges.rows)
    /\ LET row == edges.rows[idx + 1]
       IN  G' = add_edge(G, row.from, row.to,
                         RowEdgeTime(stations, edges, row),
                         RowLineValue(stations, edges, row))
    /\ idx' = idx + 1
    /\ UNCHANGED <<stations, edges, pc, warned, query>>

\* lines 209-217: the page opens, or stops on an empty graph
OpenUI ==
    /\ pc = "edges"
    /\ idx = Len(edges.rows)
    /\ pc' = IF G.nodes = {} THEN "stopped" ELSE "ready"
    /\ UNCHANGED <<stations, edges, warned, G, idx, query>>

\* GetRoute that answers a failed search with the direct hop
GetRouteDefault(s, t) ==
    /\ pc = "ready"
    /\ source' = s
    /\ target' = t
    /\ LET found == shortest_path(G, s, t)
       IN  \E p \in (IF found = {} THEN {<<s, t>>} ELSE found) :
              LET w == IF found = {}
                       THEN [route_steps |-> <<GoStep(t, "")>>,
                             total_time |-> HopTime(Num(DEFAULT_EDGE_TIME))]
                       ELSE Walk(G, p)
              IN  /\ path' = p
                  /\ route_steps' = w.route_steps
                  /\ total_time' = w.total_time
                  /\ display' =
                       IF IsNum(w.total_time)
                       THEN [info |-> Len(p), steps |-> w.route_steps,
                             metric |-> Num(w.total_time.v \div 10),
                             error |-> FALSE]
                       ELSE [info |-> Len(p), steps |-> w.route_steps,
                             metric |-> NoneT, error |-> TRUE]
    /\ pc' = "shown"
    /\ UNCHANGED <<stations, edges, warned, G, idx>>

\* lines 216-264: the two selections and the button
GetRoute(s, t) ==
    /\ pc = "ready"
    /\ source' = s
    /\ target' = t
    /\ LET found == shortest_path(G, s, t)
       IN  IF found = {}
           THEN /\ path' = <<>>
                /\ route_steps' = <<>>
                /\ total_time' = NoneT
                /\ display' = [NoDisplay EXCEPT !.error = TRUE]
           ELSE \E p \in found :
                  LET w == Walk(G, p)
                  IN  /\ path' = p
                      /\ route_steps' = w.route_steps
                      /\ total_time' = w.total_time
                      /\ display' =
                           IF IsNum(w.total_time)
                           THEN [info |-> Len(p), steps |-> w.route_steps,
                                 metric |-> Num(w.total_time.v \div 10),
                                 error |-> FALSE]
                           ELSE [info |-> Len(p), steps |-> w.route_steps,
                                 metric |-> NoneT, error |-> TRUE]
    /\ pc' = "shown"
    /\ UNCHANGED <<stations, edges, warned, G, idx>>

\* the next interaction runs the script again from the top; load_data is
\* cached (line 7), so the tables are the same
Rerun ==
    /\ pc = "shown"
    /\ pc' = "check"
    /\ warned' = {}
    /\ G' = EmptyGraph
    /\ idx' = 0
    /\ source' = ""
    /\ target' = ""
    /\ path' = <<>>
    /\ route_steps' = <<>>
    /\ total_time' = NoneT
    /\ display' = NoDisplay
    /\ UNCHANGED <<stations, edges>>

Next ==
    \/ CheckMissing
    \/ AddNodes
    \/ AddEdge
    \/ OpenUI
    \/ \E s \in G.nodes : \E t \in G.nodes : GetRoute(s, t)
    \/ Rerun

Spec == Init /\ [][Next]_vars

-----------------------------------------------------------------------------
(* Vocabulary of the properties *)

Built == pc \in {"ready", "shown"}

Last(q) == q[Len(q)]

\* every simple path from s to t in g
SimplePaths(g, s, t) ==
    {q \in UNION {[1..n -> g.nodes] : n \in 1..Cardinality(g.nodes)} :
        /\ q[1] = s
        /\ Last(q) = t
        /\ \A i \in 1..Len(q) : \A j \in 1..Len(q) : i # j => q[i] # q[j]
        /\ \A i \in 1..(Len(q) - 1) : HasEdge(g, q[i], q[i + 1])}

RECURSIVE Reach(_, _)
\* the stations joined to a station of S by a chain of edges
Reach(g, S) ==
    LET N == S \cup UNION {Neighbors(g, u) : u \in S}
    IN  IF N = S THEN S ELSE Reach(g, N)

\* s and t lie in one connected component
Connected(g, s, t) == t \in Reach(g, {s})

\* q is a path of g from s to t
IsPath(g, q, s, t) ==
    /\ Len(q) >= 1
    /\ q[1] = s
    /\ Last(q) = t
    /\ \A i \in 1..(Len(q) - 1) : HasEdge(g, q[i], q[i + 1])

\* weight of hop i of path q
HopWeight(g, q, i) == g.adj[{q[i], q[i + 1]}].weight

RECURSIVE WeightUpTo(_, _, _)
\* total weight of the first n hops of q
WeightUpTo(g, q, n) ==
    IF n = 0 THEN Num(0) ELSE FAdd(WeightUpTo(g, q, n - 1), HopWeight(g, q, n))

PathWeight(g, q) == WeightUpTo(g, q, Len(q) - 1)

Hops(q) == Len(q) - 1

\* normalised line identifier of hop i of path q
HopLine(g, q, i) == NormLine(RawLineOf(g.adj[{q[i], q[i + 1]}].line))

\* hops whose line identifier differs from the hop before
Transitions(g, q) == {i \in 2..Hops(q) : HopLine(g, q, i) # HopLine(g, q, i - 1)}

ChangeSteps == {i \in 1..Len(route_steps) : route_steps[i].kind = "change"}

GoSteps == {i \in 1..Len(route_steps) : route_steps[i].kind = "go"}

Changes == Cardinality(ChangeSteps)

Answered == pc = "shown" /\ path # <<>>

-----------------------------------------------------------------------------
(* Properties *)

\* C1: for source and target in one connected component the query returns a
\* path from source to target along graph edges whose total weight is at
\* most the total weight of every other source-to-target path.
C1_ShortestPath ==
    (pc = "shown" /\ Connected(G, source, target)) =>
        /\ path \in SimplePaths(G, source, target)
        /\ \A q \in SimplePaths(G, source, target) \ {path} :
              IsNum(PathWeight(G, q)) => FLeq(PathWeight(G, path), PathWeight(G, q))

\* The statement of C1 on graphs all of whose weights are numbers.
C1_NumericGraphs ==
    (pc = "shown" /\ Connected(G, source, target)
       /\ \A e \in DOMAIN G.adj : IsNum(G.adj[e].weight)) =>
        /\ path \in SimplePaths(G, source, target)
        /\ \A q \in SimplePaths(G, source, target) :
              PathWeight(G, path).v <= PathWeight(G, q).v

\* C2: a query with source = target returns the single-element path, records
\* no travel step and no interchange, and reports a total time of zero.
C2_SameStation ==
    (pc = "shown" /\ source = target) =>
        /\ path = <<source>>
        /\ route_steps = <<>>
        /\ total_time = Num(0)
        /\ display = [info |-> 1, steps |-> <<>>, metric |-> Num(0), error |-> FALSE]

C2_Witness ==
    /\ pc = "shown"
    /\ source = target
    /\ Neighbors(G, source) # {}
    /\ path = <<source>>

\* C3: a query between different connected components ends in the error
\* outcome only: no steps, station count or travel time are output, no
\* path is substituted, and the script can run again.
C3_NoRoute ==
    (pc = "shown" /\ ~Connected(G, source, target)) =>
        /\ path = <<>>
        /\ route_steps = <<>>
        /\ total_time = NoneT
        /\ display = [info |-> 0, steps |-> <<>>, metric |-> NoneT, error |-> TRUE]
        /\ ENABLED Rerun

C3_Witness ==
    /\ pc = "shown"
    /\ source # target
    /\ ~Connected(G, source, target)
    /\ Neighbors(G, source) # {}
    /\ display.error

\* C4: the number of interchange steps recorded equals the number of hops
\* whose line identifier differs from the hop before, and no station has
\* more than one interchange step.
C4_ChangeCount ==
    Answered =>
        /\ Changes = Cardinality(Transitions(G, path))
        /\ \A i \in ChangeSteps : \A j \in ChangeSteps :
              route_steps[i].at = route_steps[j].at => i = j

\* C5: an edge row with an explicit numeric travel_time_min gets exactly
\* that value as its graph edge weight when it is added, whatever the
\* coordinates of its endpoints or the default would give.
C5_ExplicitTime ==
    (idx > 0 /\ edges.timeCol /\ IsNum(edges.rows[idx].time)) =>
        LET row == edges.rows[idx]
        IN  /\ HasEdge(G, row.from, row.to)
            /\ G.adj[{row.from, row.to}].weight = row.time

C5_Witness ==
    /\ idx > 0
    /\ edges.timeCol
    /\ IsNum(edges.rows[idx].time)
    /\ stations.coords
    /\ {edges.rows[idx].from, edges.rows[idx].to} \subseteq stations.present
    /\ GeoTime(edges.rows[idx].from, edges.rows[idx].to) # edges.rows[idx].time.v
    /\ DEFAULT_EDGE_TIME # edges.rows[idx].time.v
    /\ G.adj[{edges.rows[idx].from, edges.rows[idx].to}].weight = edges.rows[idx].time

RECURSIVE ReadBackUpTo(_, _, _)
\* sum over the first n hops of q of the time the handler reads back for
\* the hop: the edge weight, or the default of 2 minutes for a weight of 0
ReadBackUpTo(g, q, n) ==
    IF n = 0 THEN 0
    ELSE ReadBackUpTo(g, q, n - 1)
         + (IF HopWeight(g, q, n).v = 0 THEN DEFAULT_EDGE_TIME
            ELSE HopWeight(g, q, n).v)

NumericPath(g, q) == \A i \in 1..Hops(q) : IsNum(HopWeight(g, q, i))

\* the graph A-B on line Red (5 min), B-C on line Blue (3 min)
RedBlueExample ==
    /\ DOMAIN G.adj = {{"A", "B"}, {"B", "C"}}
    /\ G.adj[{"A", "B"}] = [weight |-> Num(50), line |-> "Red"]
    /\ G.adj[{"B", "C"}] = [weight |-> Num(30), line |-> "Blue"]

PositivePath(g, q) ==
    \A i \in 1..Hops(q) : IsNum(HopWeight(g, q, i)) /\ HopWeight(g, q, i).v > 0

C7_ParallelEdges ==
    \A i \in 1..idx : \A j \in 1..idx :
        LET row == edges.rows[i]
            later == edges.rows[j]
        IN  (/\ i < j
             /\ {row.from, row.to} = {later.from, later.to}
             /\ RowLineValue(stations, edges, row) # RowLineValue(stations, edges, later))
            => /\ HasEdge(G, row.from, row.to)
               /\ G.adj[{row.from, row.to}].line = RowLineValue(stations, edges, row)
               /\ G.adj[{row.from, row.to}].weight = RowEdgeTime(stations, edges, row)

EdgeStations ==
    {edges.rows[i].from : i \in 1..Len(edges.rows)}
    \cup {edges.rows[i].to : i \in 1..Len(edges.rows)}

\* C8: an edge row naming a station absent from the station table does not
\* abort the build: the missing stations are warned about, the edge is
\* added, both endpoints are nodes, and the missing station serves as
\* source, target or intermediate station of a route.
C8_WarnAndInclude ==
    /\ pc # "check" => warned = EdgeStations \ stations.present
    /\ \A i \in 1..idx :
          /\ {edges.rows[i].from, edges.rows[i].to} \subseteq G.nodes
          /\ HasEdge(G, edges.rows[i].from, edges.rows[i].to)
    /\ (pc = "edges" /\ idx < Len(edges.rows)) => ENABLED AddEdge
    /\ pc = "stopped" => (stations.present = {} /\ edges.rows = <<>>)
    /\ Built => (idx = Len(edges.rows) /\ warned \subseteq G.nodes)
    /\ (pc = "shown" /\ Connected(G, source, target)
          /\ (source \in warned \/ target \in warned)) =>
          IsPath(G, path, source, target)

C8_Witness ==
    /\ Answered
    /\ ~display.error
    /\ Len(path) = 3
    /\ {path[1], path[2], path[3]} \subseteq warned
    /\ stations.present = {}

\* C9: a row without a usable explicit travel time gets (a) the time of an
\* edge-table row matching the pair in either direction, if one supplies a
\* time, else (b) the great-circle time when both endpoints have
\* coordinates, else (c) DEFAULT_EDGE_TIME; the weight is always a
\* non-negative number.
C9_FallbackOrder ==
    (idx > 0 /\ (~edges.timeCol \/ ~IsNum(edges.rows[idx].time))) =>
        LET row == edges.rows[idx]
            w == G.adj[{row.from, row.to}].weight
            supplied == {edges.rows[i].time : i \in
                           {j \in MatchingRows(edges, row.from, row.to) :
                               edges.timeCol /\ IsNum(edges.rows[j].time)}}
        IN  /\ IsNum(w)
            /\ w.v >= 0
            /\ IF supplied # {} THEN w \in supplied
               ELSE IF stations.coords /\ {row.from, row.to} \subseteq stations.present
                    THEN w = Num(GeoTime(row.from, row.to))
                    ELSE w = Num(DEFAULT_EDGE_TIME)

\* C10: the time added to the total for a hop is the weight the search used
\* for the edge, so the total minus the dwell and interchange overheads is
\* the weight of the path.
C10_ReadBack ==
    (Answered /\ NumericPath(G, path)) =>
        /\ IsNum(total_time)
        /\ total_time.v - DWELL_TIME * Hops(path) - INTERCHANGE_TIME * Changes
              = PathWeight(G, path).v

====
